---- MODULE Spec2Model ----
(***************************************************************************)
(* Model of the Addie desktop backend (apps/desktop/src-tauri): the OAuth  *)
(* deep-link callback, the session file, the read commands, login and      *)
(* logout.                                                                 *)
(*                                                                         *)
(* Text is a sequence of characters (one-element strings; an escape such   *)
(* as "%40" is written as one element of the raw text).  Option<T> is a    *)
(* sequence of length 0 (None) or 1 (Some).                                *)
(***************************************************************************)
EXTENDS Naturals, Sequences, FiniteSets, TLC

VARIABLES
    env,        \* the process environment: ADDIE_API_URL
    file,       \* $HOME/.addie-session.json
    keychain,   \* the credential entry (KEYRING_SERVICE, KEYRING_USER)
    op,         \* the operation that ran last
    arg,        \* its argument: the URLs handed to the deep-link handler, in order
    result,     \* its Result
    emitted,    \* the events it emitted through app.emit, in order
    opened,     \* the URLs it handed to the opener, in order
    writes,     \* the outcome of each call of save_session it made, in order
    credDelete, \* the outcome of the delete_credential it made (none: it made no such call)
    live,       \* history: the session of the last successful callback since the last logout
    pc,         \* where the callback, the read command and logout stand when they interleave
    before,     \* the file as it was when the callback in flight opened it (absent: none in flight)
    unlinked,   \* the file the callback is writing has been removed under it
    read,       \* the read command in flight or last run, and what it returned
    allowed,    \* history: what get_session returns before or after each operation the read overlaps
    delivery,   \* for each URL of the last list of URLs: the outcome of its write and its Result
    twin        \* a second run given the same operations with other sealed_session values

vars == <<env, file, keychain, op, arg, result, emitted, opened, writes, credDelete, live,
          pc, before, unlinked, read, allowed, delivery, twin>>

conc == <<pc, before, unlinked, read, allowed, delivery, twin>>

None == <<>>
Some(x) == <<x>>

Ok(v) == [ok |-> TRUE, val |-> v]
Err(e) == [ok |-> FALSE, err |-> e]
Unit == "()"

(***************************************************************************)
(* Bounds                                                                  *)
(***************************************************************************)
\* how many repeated query pairs a callback URL carries after its first five
MaxDup == 1

\* how many URLs one delivery of deep links carries
MaxUrls == 2

(***************************************************************************)
(* Constants of the program                                                *)
(***************************************************************************)
KEYRING_SERVICE == "org.agenticadvertising.addie"
KEYRING_USER == "session"

DefaultApiBase == <<"https://agenticadvertising.org">>
CallbackUri == <<"addie", ":", "/", "/", "auth", "/", "callback">>

RequiredKeys == <<"sealed_session", "user_id", "email">>
OptionalKeys == <<"first_name", "last_name">>

(***************************************************************************)
(* Text conversions                                                        *)
(***************************************************************************)
\* url::Url::parse lower-cases the scheme (ASCII)
ToAsciiLowercaseChar(c) ==
    CASE c = "A" -> "a" [] c = "D" -> "d" [] c = "I" -> "i" [] c = "E" -> "e"
      [] OTHER -> c

ToAsciiLowercase(s) == [i \in 1..Len(s) |-> ToAsciiLowercaseChar(s[i])]

\* form_urlencoded::parse: '+' is a space, %XX is the byte XX
FormDecodeChar(c) ==
    CASE c = "+" -> " " [] c = "%40" -> "@" [] c = "%2B" -> "+" [] c = "%20" -> " "
      [] OTHER -> c

FormDecode(s) == [i \in 1..Len(s) |-> FormDecodeChar(s[i])]

\* urlencoding::encode: everything but [A-Za-z0-9-_.~] is %XX
UrlEncodeChar(c) ==
    CASE c = ":" -> "%3A" [] c = "/" -> "%2F" [] c = "?" -> "%3F" [] c = "=" -> "%3D"
      [] OTHER -> c

UrlEncode(s) == [i \in 1..Len(s) |-> UrlEncodeChar(s[i])]

(***************************************************************************)
(* UserSession and its JSON form (serde)                                   *)
(***************************************************************************)
UserSession(sealed_session, user_id, email, first_name, last_name) ==
    [sealed_session |-> sealed_session, user_id |-> user_id, email |-> email,
     first_name |-> first_name, last_name |-> last_name]

JNull == [t |-> "null"]
JStr(s) == [t |-> "string", v |-> s]

OptionToJson(o) == IF o = None THEN JNull ELSE JStr(o[1])

\* serde_json::to_string(session)
ToJsonNoneAsEmpty(session) ==
    [sealed_session |-> JStr(session.sealed_session),
     user_id |-> JStr(session.user_id),
     email |-> JStr(session.email),
     first_name |-> JStr(IF session.first_name = None THEN <<>> ELSE session.first_name[1]),
     last_name |-> JStr(IF session.last_name = None THEN <<>> ELSE session.last_name[1])]

ToJson(session) ==
    [sealed_session |-> JStr(session.sealed_session),
     user_id |-> JStr(session.user_id),
     email |-> JStr(session.email),
     first_name |-> OptionToJson(session.first_name),
     last_name |-> OptionToJson(session.last_name)]

JsonToOption(j) == IF j.t = "null" THEN None ELSE Some(j.v)

\* serde_json::from_str::<UserSession>(json)
FromJson(obj) ==
    IF \E k \in {"sealed_session", "user_id", "email"} : obj[k].t # "string"
    THEN Err("invalid type")
    ELSE Ok(UserSession(obj.sealed_session.v, obj.user_id.v, obj.email.v,
                        JsonToOption(obj.first_name), JsonToOption(obj.last_name)))

(***************************************************************************)
(* The session file                                                        *)
(***************************************************************************)
NoFile == [kind |-> "absent"]
Truncated == [kind |-> "truncated"]      \* a strict prefix of the JSON text
FileOf(obj) == [kind |-> "json", obj |-> obj]

PathExists(f) == f.kind # "absent"

WriteOutcomes == {"ok", "open_failed", "write_failed"}

\* std::fs::write(&path, &json): create-and-truncate, then write_all
FsWriteLosingFile(f, obj, outcome) ==
    CASE outcome = "ok" -> FileOf(obj)
      [] outcome = "open_failed" -> NoFile
      [] outcome = "write_failed" -> Truncated

FsWrite(f, obj, outcome) ==
    CASE outcome = "ok" -> FileOf(obj)
      [] outcome = "open_failed" -> f
      [] outcome = "write_failed" -> Truncated

\* get_session once path.exists() was true: read_to_string, from_str
ReadSession(f) ==
    CASE f.kind = "absent" -> Err("No such file or directory")
      [] f.kind = "truncated" -> Err("EOF while parsing")
      [] f.kind = "json" -> LET r == FromJson(f.obj) IN IF r.ok THEN Ok(Some(r.val)) ELSE r

\* get_session
get_session(f) == IF PathExists(f) THEN ReadSession(f) ELSE Ok(None)

(***************************************************************************)
(* Inputs                                                                  *)
(***************************************************************************)
Addie == <<"a", "d", "d", "i", "e">>
Schemes == {Addie, <<"A", "D", "D", "I", "E">>, <<"h", "t", "t", "p", "s">>, <<>>}
Hosts == {Some("auth"), Some("other"), None}
Paths == {"/callback", "/other"}

Keys == <<"sealed_session", "user_id", "email", "first_name", "last_name">>

\* the raw value a key carries when the URL has it among its first five pairs
RawValue(k) ==
    CASE k = "sealed_session" -> <<"t", "%2B", "1">>
      [] k = "user_id" -> <<"u", "1">>
      [] k = "email" -> <<"a", "%40", "b">>
      [] k = "first_name" -> <<>>
      [] k = "last_name" -> <<"L", "+", "M">>

RECURSIVE PairsOf(_, _)
PairsOf(present, i) ==
    IF i > Len(Keys) THEN <<>>
    ELSE (IF Keys[i] \in present THEN <<[k |-> Keys[i], v |-> RawValue(Keys[i])]>> ELSE <<>>)
         \o PairsOf(present, i + 1)

\* which of the five keys a URL carries: any of the required ones without the
\* optional names, and all the required ones with any of the optional names
KeySets ==
    LET required == {RequiredKeys[i] : i \in 1..Len(RequiredKeys)}
        optional == {OptionalKeys[i] : i \in 1..Len(OptionalKeys)}
    IN (SUBSET required) \cup {required \cup o : o \in SUBSET optional}

BaseQueries == {PairsOf(present, 1) : present \in KeySets}

DupPairs == {[k |-> "email", v |-> <<"c", "%40", "d">>],
             [k |-> "first_name", v |-> <<"B", "o", "b">>]}

RECURSIVE SeqsUpTo(_, _)
SeqsUpTo(S, n) ==
    IF n = 0 THEN {<<>>}
    ELSE LET shorter == SeqsUpTo(S, n - 1)
         IN shorter \cup {Append(q, x) : q \in shorter, x \in S}

CallbackQueries == {q \o d : q \in BaseQueries, d \in SeqsUpTo(DupPairs, MaxDup)}

FullQuery == PairsOf({Keys[i] : i \in 1..Len(Keys)}, 1)

Url(scheme, host, path, query) ==
    [scheme |-> scheme, host |-> host, path |-> path, query |-> query]

Urls ==
    {Url(Addie, Some("auth"), "/callback", q) : q \in CallbackQueries}
    \cup {Url(s, h, p, FullQuery) : s \in Schemes, h \in Hosts, p \in Paths}

\* the URLs of the deliveries of several URLs
ListUrls ==
    {Url(<<>>, Some("auth"), "/callback", FullQuery),
     Url(<<"h", "t", "t", "p", "s">>, Some("auth"), "/callback", FullQuery)}
    \cup {Url(Addie, Some("auth"), "/callback", PairsOf(ks, 1)) :
            ks \in {{"sealed_session", "user_id"}, {"sealed_session", "user_id", "email"},
                    {Keys[i] : i \in 1..Len(Keys)}}}

\* a URL with another value for each sealed_session it carries
Retoken(url) ==
    [url EXCEPT !.query = [i \in 1..Len(url.query) |->
                              IF url.query[i].k = "sealed_session"
                              THEN [k |-> "sealed_session", v |-> <<"t", "2">>]
                              ELSE url.query[i]]]

AllUrls == Urls \cup ListUrls \cup {Retoken(url) : url \in Urls}

Envs == {[kind |-> "unset", val |-> <<>>],
         [kind |-> "unicode", val |-> <<"http://localhost:3000">>],
         [kind |-> "not_unicode", val |-> <<"\\xFF">>]}

(***************************************************************************)
(* save_session, clear_session                                             *)
(***************************************************************************)
\* save_session(session); the outcome is that of std::fs::write
save_session(f, session, outcome) ==
    [file |-> FsWrite(f, ToJson(session), outcome),
     result |-> IF outcome = "ok" THEN Ok(Unit) ELSE Err("io error")]

NoEntry == [kind |-> "no_entry"]

RemoveOutcomes == {"ok", "failed"}

\* entry.delete_credential(): Ok, or an Err nobody looks at
DeleteOutcomes == {"deleted", "failed"}

\* std::fs::remove_file(&path)
FsRemove(f, outcome) == IF outcome = "ok" THEN NoFile ELSE f

\* clear_session(); deleting the credential may fail and is not looked at
clear_session_without_exists(f, rm) ==
    IF PathExists(f)
    THEN [file |-> FsRemove(f, rm),
          result |-> IF rm = "ok" THEN Ok(Unit) ELSE Err("io error")]
    ELSE [file |-> f, result |-> Err("No such file or directory")]

clear_session(f, rm) ==
    IF PathExists(f)
    THEN [file |-> FsRemove(f, rm),
          result |-> IF rm = "ok" THEN Ok(Unit) ELSE Err("io error")]
    ELSE [file |-> f, result |-> Ok(Unit)]

(***************************************************************************)
(* The deep-link callback                                                  *)
(***************************************************************************)
\* url::Url::parse on the text of a URL, given as its pieces as written:
\* scheme (empty: the text has no "scheme:"), host (None: no "//authority"),
\* path, and the query as its "k=v" pieces in order
UrlParseLenient(u) ==
    Ok([scheme |-> ToAsciiLowercase(u.scheme), host |-> u.host, path |-> u.path,
        query |-> u.query])

UrlParse(u) ==
    IF u.scheme = <<>>
    THEN Err("relative URL without a base")
    ELSE Ok([scheme |-> ToAsciiLowercase(u.scheme), host |-> u.host, path |-> u.path,
             query |-> u.query])

\* the checks of handle_deep_link before it reads the query
IsAuthCallbackAnyPath(parsed) ==
    ~ (parsed.scheme # <<"a", "d", "d", "i", "e">> \/ parsed.host # Some("auth"))

IsAuthCallback(parsed) ==
    /\ ~ (parsed.scheme # <<"a", "d", "d", "i", "e">> \/ parsed.host # Some("auth"))
    /\ ~ (parsed.path # "/callback")

\* parsed.query_pairs(): the decoded pairs in order
QueryPairs(query) == [i \in 1..Len(query) |-> [k |-> query[i].k, v |-> FormDecode(query[i].v)]]

EmptyMap == [k \in {} |-> <<>>]

MapInsert(m, k, v) == [x \in DOMAIN m \cup {k} |-> IF x = k THEN v ELSE m[x]]

\* .collect::<HashMap<_, _>>(): each pair is inserted in turn
RECURSIVE CollectFirstWins(_)
CollectFirstWins(pairs) ==
    IF pairs = <<>> THEN EmptyMap
    ELSE LET m == CollectFirstWins(Tail(pairs))
         IN MapInsert(m, Head(pairs).k, Head(pairs).v)

RECURSIVE Collect(_)
Collect(pairs) ==
    IF pairs = <<>> THEN EmptyMap
    ELSE LET n == Len(pairs)
             m == Collect(SubSeq(pairs, 1, n - 1))
         IN MapInsert(m, pairs[n].k, pairs[n].v)

MapGet(m, k) == IF k \in DOMAIN m THEN Some(m[k]) ELSE None

\* the three required and two optional parameters, and the session made of them
ExtractSessionEmailOptional(params) ==
    IF MapGet(params, "sealed_session") = None THEN Err("Missing sealed_session")
    ELSE IF MapGet(params, "user_id") = None THEN Err("Missing user_id")
    ELSE Ok(UserSession(params["sealed_session"], params["user_id"],
                        IF MapGet(params, "email") = None THEN <<>> ELSE params["email"],
                        MapGet(params, "first_name"), MapGet(params, "last_name")))

ExtractSession(params) ==
    IF MapGet(params, "sealed_session") = None THEN Err("Missing sealed_session")
    ELSE IF MapGet(params, "user_id") = None THEN Err("Missing user_id")
    ELSE IF MapGet(params, "email") = None THEN Err("Missing email")
    ELSE Ok(UserSession(params["sealed_session"], params["user_id"], params["email"],
                        MapGet(params, "first_name"), MapGet(params, "last_name")))

AuthError(msg) == [name |-> "auth-error", payload |-> msg]

AuthSuccessWithToken(session) ==
    [name |-> "auth-success",
     payload |-> [id |-> JStr(session.user_id), email |-> JStr(session.email),
                  first_name |-> OptionToJson(session.first_name),
                  last_name |-> OptionToJson(session.last_name),
                  sealed_session |-> JStr(session.sealed_session)]]

AuthSuccessIdFromEmail(session) ==
    [name |-> "auth-success",
     payload |-> [id |-> JStr(session.email), email |-> JStr(session.email),
                  first_name |-> OptionToJson(session.first_name),
                  last_name |-> OptionToJson(session.last_name)]]

AuthSuccess(session) ==
    [name |-> "auth-success",
     payload |-> [id |-> JStr(session.user_id), email |-> JStr(session.email),
                  first_name |-> OptionToJson(session.first_name),
                  last_name |-> OptionToJson(session.last_name)]]

\* what handle_deep_link does when save_session returned Err(e)
SaveFailedSilently(e) ==
    [result |-> Err(<<"Failed to save session: ", e>>), emitted |-> <<>>]

SaveFailed(e) ==
    [result |-> Err(<<"Failed to save session: ", e>>),
     emitted |-> <<AuthError(<<"Failed to save session: ", e>>)>>]

\* handle_deep_link up to the session it builds: an early return, or the session
ParseCallback(url) ==
    LET p == UrlParse(url)
    IN IF ~ p.ok THEN [returned |-> TRUE, result |-> p]
       ELSE IF ~ IsAuthCallback(p.val) THEN [returned |-> TRUE, result |-> Ok(Unit)]
       ELSE LET s == ExtractSession(Collect(QueryPairs(p.val.query)))
            IN IF ~ s.ok THEN [returned |-> TRUE, result |-> s]
               ELSE [returned |-> FALSE, session |-> s.val]

\* ParseCallback on each input, evaluated once
ParsedCallbacks == [url \in AllUrls |-> ParseCallback(url)]

\* whether handle_deep_link comes to call save_session on this URL
ReachesSave(url) == ~ ParsedCallbacks[url].returned

CallbackSession(url) == ParsedCallbacks[url].session

\* handle_deep_link(app, url); w is the outcome of the write, if it comes to one
handle_deep_link(f, url, w) ==
    IF ~ ReachesSave(url)
    THEN [file |-> f, result |-> ParsedCallbacks[url].result, emitted |-> <<>>, saves |-> 0]
    ELSE LET session == CallbackSession(url)
             saved == save_session(f, session, w)
         IN IF ~ saved.result.ok
            THEN [file |-> saved.file,
                  result |-> SaveFailed(saved.result.err).result,
                  emitted |-> SaveFailed(saved.result.err).emitted,
                  saves |-> 1]
            ELSE [file |-> saved.file, result |-> Ok(Unit),
                  emitted |-> <<AuthSuccess(session)>>, saves |-> 1]

(***************************************************************************)
(* The read commands, login, logout                                        *)
(***************************************************************************)
UserInfo(session) ==
    [id |-> session.user_id, email |-> session.email,
     first_name |-> session.first_name, last_name |-> session.last_name]

AuthState(is_authenticated, user) == [is_authenticated |-> is_authenticated, user |-> user]

\* the match of get_auth_state on what get_session returned
AuthStateOfNoUser(r) ==
    IF ~ r.ok THEN Err(<<"Failed to get auth state: ", r.err>>)
    ELSE IF r.val = None THEN Ok(AuthState(FALSE, None))
    ELSE Ok(AuthState(TRUE, None))

AuthStateOf(r) ==
    IF ~ r.ok THEN Err(<<"Failed to get auth state: ", r.err>>)
    ELSE IF r.val = None THEN Ok(AuthState(FALSE, None))
    ELSE Ok(AuthState(TRUE, Some(UserInfo(r.val[1]))))

\* get_auth_state()
get_auth_state(f) == AuthStateOf(get_session(f))

\* the match of get_session_token on what get_session returned
TokenOf(r) ==
    IF ~ r.ok THEN Err(<<"Failed to get session: ", r.err>>)
    ELSE IF r.val = None THEN Ok(None)
    ELSE Ok(Some(r.val[1].sealed_session))

\* get_session_token()
get_session_token(f) == TokenOf(get_session(f))

\* std::env::var("ADDIE_API_URL"): Err when the variable is unset or is not Unicode
EnvVar(e) == IF e.kind = "unicode" THEN Ok(e.val) ELSE Err(e.kind)

\* get_api_base_url()
get_api_base_url_default_only(e) == DefaultApiBase

get_api_base_url(e) == IF EnvVar(e).ok THEN EnvVar(e).val ELSE DefaultApiBase

\* the login_url of start_oauth_flow
LoginUrl(e) ==
    get_api_base_url(e) \o <<"/auth/login?native=true&redirect_uri=">> \o UrlEncode(CallbackUri)

OpenOutcomes == {"ok", "failed"}

(***************************************************************************)
(* The state machine: each command and each callback runs to its end       *)
(***************************************************************************)
Init ==
    /\ env \in Envs
    /\ file = NoFile
    /\ keychain = NoEntry
    /\ op = "init"
    /\ arg = None
    /\ result = Ok(Unit)
    /\ emitted = <<>>
    /\ opened = <<>>
    /\ writes = <<>>
    /\ credDelete = "none"
    /\ live = None
    /\ pc = [cb |-> "idle", rd |-> "idle", lo |-> "idle"]
    /\ before = NoFile
    /\ unlinked = FALSE
    /\ read = [cmd |-> "none", result |-> Ok(Unit)]
    /\ allowed = {}
    /\ delivery = <<>>
    /\ twin = [file |-> NoFile, result |-> Ok(Unit), emitted |-> <<>>]

\* on_open_url / startup: handle_deep_link on one URL
HandleDeepLink ==
    \E url \in Urls, w \in WriteOutcomes :
        /\ w = "ok" \/ ReachesSave(url)
        /\ \E r \in {handle_deep_link(file, url, w)} :
              /\ file' = r.file
              /\ result' = r.result
              /\ emitted' = r.emitted
              /\ writes' = IF r.saves = 1 THEN <<w>> ELSE <<>>
              /\ live' = IF r.saves = 1 /\ r.result.ok THEN Some(CallbackSession(url)) ELSE live
        /\ op' = "handle_deep_link"
        /\ arg' = Some(url)
        /\ opened' = <<>>
        /\ credDelete' = "none"
        /\ UNCHANGED <<env, keychain, conc>>

GetAuthState ==
    /\ op' = "get_auth_state"
    /\ result' = get_auth_state(file)
    /\ arg' = None /\ emitted' = <<>> /\ opened' = <<>> /\ writes' = <<>>
    /\ credDelete' = "none"
    /\ UNCHANGED <<env, file, keychain, live, conc>>

GetSessionToken ==
    /\ op' = "get_session_token"
    /\ result' = get_session_token(file)
    /\ arg' = None /\ emitted' = <<>> /\ opened' = <<>> /\ writes' = <<>>
    /\ credDelete' = "none"
    /\ UNCHANGED <<env, file, keychain, live, conc>>

\* start_login -> start_oauth_flow
StartLogin ==
    \E o \in OpenOutcomes :
        /\ op' = "start_login"
        /\ opened' = <<LoginUrl(env)>>
        /\ result' = IF o = "ok" THEN Ok(Unit) ELSE Err("open failed")
        /\ arg' = None /\ emitted' = <<>> /\ writes' = <<>>
        /\ credDelete' = "none"
        /\ UNCHANGED <<env, file, keychain, live, conc>>

\* logout -> clear_session
Logout ==
    \E rm \in RemoveOutcomes, kc \in DeleteOutcomes :
        /\ rm = "ok" \/ PathExists(file)
        /\ \E r \in {clear_session(file, rm)} :
              /\ file' = r.file
              /\ result' = r.result
              /\ live' = IF r.result.ok THEN None ELSE live
        /\ keychain' = IF kc = "deleted" THEN NoEntry ELSE keychain
        /\ credDelete' = kc
        /\ op' = "logout"
        /\ arg' = None /\ emitted' = <<>> /\ opened' = <<>> /\ writes' = <<>>
        /\ UNCHANGED <<env, conc>>

Next == HandleDeepLink \/ GetAuthState \/ GetSessionToken \/ StartLogin \/ Logout

Spec == Init /\ [][Next]_vars

\* the environment variable plays no part in these operations
InitC == Init /\ env.kind = "unset"

(***************************************************************************)
(* The state machine with the commands on the async runtime's threads and  *)
(* the callback on the event loop: the file operations of save_session,    *)
(* get_session and clear_session interleave.  Every file operation         *)
(* succeeds here and a removed file stays writable through its open handle.*)
(***************************************************************************)
\* two callbacks that come to save_session: one with the required parameters
\* alone, one with all five
ConcUrls ==
    {url \in Urls : /\ ReachesSave(url) /\ url.scheme = Addie
                    /\ url.query \in {PairsOf({RequiredKeys[i] : i \in 1..Len(RequiredKeys)}, 1),
                                      FullQuery}}

Wrap(cmd, r) == IF cmd = "get_auth_state" THEN AuthStateOf(r) ELSE TokenOf(r)

Reading == pc.rd # "idle"

\* handle_deep_link down to std::fs::write opening the file: File::create truncates it
CbCreate ==
    \E url \in ConcUrls :
        /\ pc.cb = "idle"
        /\ arg' = Some(url)
        /\ before' = file
        /\ file' = Truncated
        /\ unlinked' = FALSE
        /\ pc' = [pc EXCEPT !.cb = "write_all"]
        /\ allowed' = IF Reading
                      THEN allowed \cup {get_session(FileOf(ToJson(CallbackSession(url))))}
                      ELSE allowed
        /\ UNCHANGED <<delivery, twin, env, keychain, op, result, emitted, opened, writes, credDelete, live, read>>

\* write_all, then the rest of handle_deep_link
CbWriteAll ==
    /\ pc.cb = "write_all"
    /\ file' = IF unlinked THEN file ELSE FileOf(ToJson(CallbackSession(arg[1])))
    /\ op' = "handle_deep_link"
    /\ result' = Ok(Unit)
    /\ emitted' = <<AuthSuccess(CallbackSession(arg[1]))>>
    /\ writes' = <<"ok">>
    /\ opened' = <<>>
    /\ live' = Some(CallbackSession(arg[1]))
    /\ pc' = [pc EXCEPT !.cb = "idle"]
    /\ before' = NoFile
    /\ unlinked' = FALSE
    /\ UNCHANGED <<delivery, twin, env, keychain, arg, credDelete, read, allowed>>

\* get_auth_state or get_session_token down to path.exists() in get_session
RdExists ==
    \E cmd \in {"get_auth_state", "get_session_token"} :
        /\ pc.rd = "idle"
        /\ allowed' = IF pc.cb = "write_all"
                      THEN {get_session(before),
                            get_session(FileOf(ToJson(CallbackSession(arg[1]))))}
                           \cup (IF unlinked THEN {Ok(None)} ELSE {})
                      ELSE {get_session(file)}
        /\ IF PathExists(file)
           THEN /\ read' = [cmd |-> cmd, result |-> Ok(Unit)]
                /\ pc' = [pc EXCEPT !.rd = "read"]
           ELSE /\ read' = [cmd |-> cmd, result |-> Wrap(cmd, Ok(None))]
                /\ pc' = pc
        /\ UNCHANGED <<delivery, twin, env, file, keychain, op, arg, result, emitted, opened, writes,
                       credDelete, live, before, unlinked>>

\* read_to_string and from_str, then the command's match
RdRead ==
    /\ pc.rd = "read"
    /\ read' = [read EXCEPT !.result = Wrap(read.cmd, ReadSession(file))]
    /\ pc' = [pc EXCEPT !.rd = "idle"]
    /\ UNCHANGED <<delivery, twin, env, file, keychain, op, arg, result, emitted, opened, writes,
                   credDelete, live, before, unlinked, allowed>>

\* logout: clear_session down to path.exists()
LoExists ==
    /\ pc.lo = "idle"
    /\ \E kc \in DeleteOutcomes :
          /\ keychain' = IF kc = "deleted" THEN NoEntry ELSE keychain
          /\ credDelete' = kc
    /\ IF PathExists(file)
       THEN /\ pc' = [pc EXCEPT !.lo = "remove"]
            /\ UNCHANGED <<op, arg, result, emitted, opened, writes, live>>
       ELSE /\ pc' = pc
            /\ op' = "logout"
            /\ result' = Ok(Unit)
            /\ emitted' = <<>> /\ opened' = <<>> /\ writes' = <<>>
            /\ live' = None
            /\ UNCHANGED arg
    /\ UNCHANGED <<delivery, twin, env, file, before, unlinked, read, allowed>>

\* remove_file
LoRemove ==
    /\ pc.lo = "remove"
    /\ file' = NoFile
    /\ unlinked' = (unlinked \/ pc.cb = "write_all")
    /\ allowed' = IF Reading THEN allowed \cup {Ok(None)} ELSE allowed
    /\ op' = "logout"
    /\ result' = Ok(Unit)
    /\ emitted' = <<>> /\ opened' = <<>> /\ writes' = <<>>
    /\ live' = None
    /\ pc' = [pc EXCEPT !.lo = "idle"]
    /\ UNCHANGED <<delivery, twin, env, keychain, arg, credDelete, before, read>>

NextC == CbCreate \/ CbWriteAll \/ RdExists \/ RdRead \/ LoExists \/ LoRemove

SpecC == InitC /\ [][NextC]_vars

(***************************************************************************)
(* The state machine with deliveries of several URLs: the for loops of run *)
(***************************************************************************)
\* a malformed URL, an irrelevant one, a callback without email, two good callbacks
DeliveryUrls == ListUrls

\* a URL of a delivery with the outcome of its write, should it come to one
DeliveryItems ==
    {[url |-> url, w |-> w] :
        url \in {u \in DeliveryUrls : ReachesSave(u)}, w \in WriteOutcomes}
    \cup {[url |-> url, w |-> "none"] : url \in {u \in DeliveryUrls : ~ ReachesSave(u)}}

Deliveries == SeqsUpTo(DeliveryItems, MaxUrls)

NoneHandled(f) == [file |-> f, delivery |-> <<>>, emitted |-> <<>>, writes |-> <<>>, live |-> None]

\* for url in urls { if let Err(e) = auth::handle_deep_link(..) { eprintln!(..) } }
RECURSIVE HandleAllStopAtErr(_, _)
HandleAllStopAtErr(f, items) ==
    IF items = <<>> THEN NoneHandled(f)
    ELSE LET r == handle_deep_link(f, Head(items).url, Head(items).w)
             rest == IF r.result.ok THEN HandleAllStopAtErr(r.file, Tail(items))
                     ELSE NoneHandled(r.file)
         IN [file |-> rest.file,
             delivery |-> <<[w |-> Head(items).w, result |-> r.result]>> \o rest.delivery,
             emitted |-> r.emitted \o rest.emitted,
             writes |-> (IF r.saves = 1 THEN <<Head(items).w>> ELSE <<>>) \o rest.writes,
             live |-> IF rest.live # None THEN rest.live
                      ELSE IF r.saves = 1 /\ r.result.ok
                           THEN Some(CallbackSession(Head(items).url)) ELSE None]

RECURSIVE HandleAll(_, _)
HandleAll(f, items) ==
    IF items = <<>> THEN NoneHandled(f)
    ELSE LET r == handle_deep_link(f, Head(items).url, Head(items).w)
             rest == HandleAll(r.file, Tail(items))
         IN [file |-> rest.file,
             delivery |-> <<[w |-> Head(items).w, result |-> r.result]>> \o rest.delivery,
             emitted |-> r.emitted \o rest.emitted,
             writes |-> (IF r.saves = 1 THEN <<Head(items).w>> ELSE <<>>) \o rest.writes,
             live |-> IF rest.live # None THEN rest.live
                      ELSE IF r.saves = 1 /\ r.result.ok
                           THEN Some(CallbackSession(Head(items).url)) ELSE None]

Deliver(name, items) ==
    /\ \E r \in {HandleAll(file, items)} :
          /\ file' = r.file
          /\ delivery' = r.delivery
          /\ emitted' = r.emitted
          /\ writes' = r.writes
          /\ live' = IF r.live # None THEN r.live ELSE live
    /\ op' = name
    /\ arg' = [i \in 1..Len(items) |-> items[i].url]
    /\ result' = Ok(Unit)
    /\ opened' = <<>>
    /\ credDelete' = "none"
    /\ UNCHANGED <<env, keychain, pc, before, unlinked, read, allowed, twin>>

\* setup: the URLs the app was launched with (deep_link().get_current())
StartupUrls == \E items \in Deliveries : op = "init" /\ Deliver("startup_urls", items)

\* the on_open_url handler: the URLs of one event
OnOpenUrl == \E items \in Deliveries : Deliver("on_open_url", items)

NextD == StartupUrls \/ OnOpenUrl \/ GetAuthState \/ GetSessionToken \/ Logout

SpecD == InitC /\ [][NextD]_vars

(***************************************************************************)
(* Two runs side by side: every operation is done to both, a callback with *)
(* the same URL but for the values of sealed_session, every file operation *)
(* with the same outcome.                                                  *)
(***************************************************************************)
Run(f, r, e) == [file |-> f, result |-> r, emitted |-> e]

BothDeepLink ==
    \E url \in Urls, w \in WriteOutcomes :
        /\ w = "ok" \/ ReachesSave(url)
        /\ \E r \in {handle_deep_link(file, url, w)} :
              /\ file' = r.file
              /\ result' = r.result
              /\ emitted' = r.emitted
              /\ writes' = IF r.saves = 1 THEN <<w>> ELSE <<>>
              /\ live' = IF r.saves = 1 /\ r.result.ok THEN Some(CallbackSession(url)) ELSE live
        /\ \E r \in {handle_deep_link(twin.file, Retoken(url), w)} :
              twin' = Run(r.file, r.result, r.emitted)
        /\ op' = "handle_deep_link"
        /\ arg' = Some(url)
        /\ opened' = <<>>
        /\ credDelete' = "none"
        /\ UNCHANGED <<env, keychain, pc, before, unlinked, read, allowed, delivery>>

BothGetAuthState ==
    /\ op' = "get_auth_state"
    /\ result' = get_auth_state(file)
    /\ twin' = Run(twin.file, get_auth_state(twin.file), <<>>)
    /\ arg' = None /\ emitted' = <<>> /\ opened' = <<>> /\ writes' = <<>>
    /\ credDelete' = "none"
    /\ UNCHANGED <<env, file, keychain, live, pc, before, unlinked, read, allowed, delivery>>

BothGetSessionToken ==
    /\ op' = "get_session_token"
    /\ result' = get_session_token(file)
    /\ twin' = Run(twin.file, get_session_token(twin.file), <<>>)
    /\ arg' = None /\ emitted' = <<>> /\ opened' = <<>> /\ writes' = <<>>
    /\ credDelete' = "none"
    /\ UNCHANGED <<env, file, keychain, live, pc, before, unlinked, read, allowed, delivery>>

BothLogout ==
    \E rm \in RemoveOutcomes, kc \in DeleteOutcomes :
        /\ rm = "ok" \/ PathExists(file)
        /\ \E r \in {clear_session(file, rm)} :
              /\ file' = r.file
              /\ result' = r.result
              /\ live' = IF r.result.ok THEN None ELSE live
        /\ \E r \in {clear_session(twin.file, rm)} : twin' = Run(r.file, r.result, <<>>)
        /\ keychain' = IF kc = "deleted" THEN NoEntry ELSE keychain
        /\ credDelete' = kc
        /\ op' = "logout"
        /\ arg' = None /\ emitted' = <<>> /\ opened' = <<>> /\ writes' = <<>>
        /\ UNCHANGED <<env, pc, before, unlinked, read, allowed, delivery>>

NextT == BothDeepLink \/ BothGetAuthState \/ BothGetSessionToken \/ BothLogout

SpecT == InitC /\ [][NextT]_vars

(***************************************************************************)
(* Properties                                                              *)
(***************************************************************************)
\* a URL as the claims speak of it, read off its text
WellFormed(url) == url.scheme # <<>>

IsCallbackUrl(url) ==
    /\ WellFormed(url)
    /\ ToAsciiLowercase(url.scheme) = <<"a", "d", "d", "i", "e">>
    /\ url.host = <<"auth">>
    /\ url.path = "/callback"

HasParam(url, k) == \E i \in DOMAIN url.query : url.query[i].k = k

\* the value of query parameter k: that of its last occurrence, decoded
ParamValue(url, k) ==
    LET i == CHOOSE i \in DOMAIN url.query :
                 /\ url.query[i].k = k
                 /\ \A j \in DOMAIN url.query : j > i => url.query[j].k # k
    IN FormDecode(url.query[i].v)

OptParamValue(url, k) == IF HasParam(url, k) THEN <<ParamValue(url, k)>> ELSE <<>>

HasAllRequired(url) ==
    HasParam(url, "sealed_session") /\ HasParam(url, "user_id") /\ HasParam(url, "email")

Count(events, name) == Cardinality({i \in DOMAIN events : events[i].name = name})

IsDeepLink == op = "handle_deep_link"

\* C1: a callback URL with the three required parameters whose write succeeds
\* leaves a stored record whose five fields are the values of the URL's query
\* parameters (decoded; of the last occurrence when a key is repeated), and
\* get_session returns exactly that record.
C1_CallbackRoundTrip ==
    (IsDeepLink /\ IsCallbackUrl(arg[1]) /\ HasAllRequired(arg[1]) /\ writes = <<"ok">>)
    => /\ result = Ok(Unit)
       /\ get_session(file) =
            Ok(Some([sealed_session |-> ParamValue(arg[1], "sealed_session"),
                     user_id |-> ParamValue(arg[1], "user_id"),
                     email |-> ParamValue(arg[1], "email"),
                     first_name |-> OptParamValue(arg[1], "first_name"),
                     last_name |-> OptParamValue(arg[1], "last_name")]))

C1_Witness ==
    /\ IsDeepLink /\ IsCallbackUrl(arg[1]) /\ writes = <<"ok">>
    /\ Cardinality({i \in DOMAIN arg[1].query : arg[1].query[i].k = "email"}) = 2
    /\ ~ HasParam(arg[1], "first_name")
    /\ get_session(file).ok
    /\ get_session(file).val[1].email = <<"c", "@", "d">>
    /\ get_session(file).val[1].last_name = <<(<<"L", " ", "M">>)>>

\* C2: a callback URL lacking sealed_session, user_id or email makes
\* handle_deep_link return an error without calling save_session, with the
\* persisted state as it was and no auth-success event.
C2_MissingParamRejected ==
    [][(op' = "handle_deep_link" /\ IsCallbackUrl(arg'[1]) /\ ~ HasAllRequired(arg'[1]))
       => /\ ~ result'.ok
          /\ writes' = <<>>
          /\ file' = file /\ keychain' = keychain
          /\ Count(emitted', "auth-success") = 0]_vars

C2_Witness ==
    /\ IsDeepLink /\ IsCallbackUrl(arg[1])
    /\ HasParam(arg[1], "sealed_session") /\ HasParam(arg[1], "user_id")
    /\ ~ HasParam(arg[1], "email")
    /\ result = Err("Missing email")
    /\ file.kind = "json"

\* C3: a well-formed URL whose scheme is not addie, or host not auth, or path
\* not /callback, makes handle_deep_link return Ok, leave the persisted
\* session as it was and emit nothing, whatever its query.
C3_IrrelevantUrlIgnored ==
    [][(op' = "handle_deep_link" /\ WellFormed(arg'[1]) /\ ~ IsCallbackUrl(arg'[1]))
       => /\ result' = Ok(Unit)
          /\ writes' = <<>>
          /\ file' = file /\ keychain' = keychain
          /\ emitted' = <<>>]_vars

C3_Witness ==
    /\ IsDeepLink
    /\ ToAsciiLowercase(arg[1].scheme) = <<"a", "d", "d", "i", "e">>
    /\ arg[1].host = <<"auth">> /\ arg[1].path = "/other"
    /\ HasAllRequired(arg[1])
    /\ result = Ok(Unit)
    /\ file.kind = "json"

\* C4 as claimed: a malformed URL is ignored like an irrelevant one:
\* handle_deep_link reports no error, changes nothing, emits nothing.
C4_MalformedIgnored ==
    [][(op' = "handle_deep_link" /\ ~ WellFormed(arg'[1]))
       => /\ result'.ok
          /\ file' = file /\ keychain' = keychain
          /\ emitted' = <<>>]_vars

\* C4: on a malformed URL handle_deep_link returns the parse error to its
\* caller; it calls save_session not at all, changes no persisted state and
\* emits no event.
C4_MalformedReturnsErr ==
    [][(op' = "handle_deep_link" /\ ~ WellFormed(arg'[1]))
       => /\ ~ result'.ok
          /\ writes' = <<>>
          /\ file' = file /\ keychain' = keychain
          /\ emitted' = <<>>]_vars

C4_Witness ==
    /\ IsDeepLink /\ ~ WellFormed(arg[1])
    /\ arg[1].host = <<"auth">> /\ arg[1].path = "/callback"
    /\ ~ result.ok
    /\ file.kind = "json"

\* C5: after save_session(s) has returned Ok, get_session returns Some(s) with
\* the five fields of s, an absent name absent; after clear_session has
\* returned Ok, get_session returns None.
C5_SaveLoadClearLoad ==
    /\ (IsDeepLink /\ writes = <<"ok">>)
       => /\ get_session(file) = Ok(Some(CallbackSession(arg[1])))
          /\ \A k \in {"first_name", "last_name"} :
                (CallbackSession(arg[1])[k] = None) = (get_session(file).val[1][k] = None)
    /\ (op = "logout" /\ result.ok) => get_session(file) = Ok(None)

C5_Witness ==
    /\ IsDeepLink /\ writes = <<"ok">>
    /\ CallbackSession(arg[1]).first_name = None
    /\ CallbackSession(arg[1]).last_name # None
    /\ get_session(file).val[1].first_name = None
    /\ get_session(file).val[1].last_name = <<(<<"L", " ", "M">>)>>

\* C6: when the write of a valid callback's session fails, handle_deep_link
\* returns an error, has emitted exactly one auth-error and no auth-success,
\* and has called save_session once.
C6_SaveFailureReportedOnce ==
    (IsDeepLink /\ writes # <<>> /\ writes[1] # "ok")
    => /\ ~ result.ok
       /\ Len(writes) = 1
       /\ Count(emitted, "auth-error") = 1
       /\ Count(emitted, "auth-success") = 0
       /\ Len(emitted) = 1

C6_Witness ==
    /\ IsDeepLink /\ writes = <<"write_failed">>
    /\ IsCallbackUrl(arg[1]) /\ HasAllRequired(arg[1])
    /\ ~ result.ok
    /\ emitted = <<AuthError(<<"Failed to save session: ", "io error">>)>>

\* C7: after a successful callback the record is held in the credential entry
\* (org.agenticadvertising.addie, session) of the OS credential store.
C7_SessionInKeychain ==
    (IsDeepLink /\ writes = <<"ok">> /\ result.ok)
    => keychain = [kind |-> "entry", service |-> KEYRING_SERVICE, user |-> KEYRING_USER,
                   value |-> ToJson(CallbackSession(arg[1]))]

C10_LoginUrlWheneverSet ==
    [][op' = "start_login"
       => /\ opened' = << (IF env.kind # "unset" THEN env.val ELSE <<"https://agenticadvertising.org">>)
                          \o <<"/auth/login?native=true&redirect_uri=">>
                          \o <<"addie", "%3A", "%2F", "%2F", "auth", "%2F", "callback">> >>
          /\ file' = file /\ keychain' = keychain
          /\ emitted' = <<>> /\ writes' = <<>>]_vars

\* C10: the same, with the value of ADDIE_API_URL used when the variable is
\* set to valid Unicode, and the default origin used when it is unset or is
\* not valid Unicode.
C10_LoginUrl ==
    [][op' = "start_login"
       => /\ opened' = << (IF env.kind = "unicode" THEN env.val ELSE <<"https://agenticadvertising.org">>)
                          \o <<"/auth/login?native=true&redirect_uri=">>
                          \o <<"addie", "%3A", "%2F", "%2F", "auth", "%2F", "callback">> >>
          /\ file' = file /\ keychain' = keychain
          /\ emitted' = <<>> /\ writes' = <<>>]_vars

C10_Witness ==
    /\ op = "start_login"
    /\ env.kind = "unicode"
    /\ opened = << <<"http://localhost:3000", "/auth/login?native=true&redirect_uri=",
                     "addie", "%3A", "%2F", "%2F", "auth", "%2F", "callback">> >>
    /\ file.kind = "json"

\* C9: a read command that runs while a callback saves or a logout clears
\* returns what get_session returns before or after those operations: an old
\* session, the new session or no session, never an error.
C9_ReadSeesBeforeOrAfter ==
    (pc.rd = "idle" /\ read.cmd # "none")
    => /\ read.result.ok
       /\ read.result \in {Wrap(read.cmd, r) : r \in allowed}

\* C11: whenever the callback that ran last has emitted auth-success, its
\* save_session had succeeded: get_session returns the session of that
\* callback, and the id, email, first_name and last_name of the payload are
\* the user_id, email, first_name and last_name of the stored record.
C11_SuccessAfterSave ==
    (IsDeepLink /\ Count(emitted, "auth-success") > 0)
    => /\ writes = <<"ok">>
       /\ Len(emitted) = 1
       /\ file.kind = "json"
       /\ get_session(file) = Ok(Some(CallbackSession(arg[1])))
       /\ emitted[1].payload = [id |-> file.obj.user_id, email |-> file.obj.email,
                                first_name |-> file.obj.first_name,
                                last_name |-> file.obj.last_name]

C11_Witness ==
    /\ IsDeepLink /\ Count(emitted, "auth-success") = 1
    /\ emitted[1].payload = [id |-> JStr(<<"u", "1">>), email |-> JStr(<<"c", "@", "d">>),
                             first_name |-> JNull, last_name |-> JNull]
    /\ file.kind = "json"

\* what the read commands return, read off the file itself
StoredUser ==
    [id |-> file.obj.user_id.v, email |-> file.obj.email.v,
     first_name |-> IF file.obj.first_name.t = "null" THEN <<>> ELSE <<file.obj.first_name.v>>,
     last_name |-> IF file.obj.last_name.t = "null" THEN <<>> ELSE <<file.obj.last_name.v>>]

ReadsAgree ==
    LET a == get_auth_state(file)
        t == get_session_token(file)
    IN /\ (a.ok /\ a.val.is_authenticated) <=> file.kind = "json"
       /\ a.ok => ((a.val.user # <<>>) <=> a.val.is_authenticated)
       /\ file.kind = "json" => a.val.user = <<StoredUser>>
       /\ (t.ok /\ t.val # <<>>) <=> (a.ok /\ a.val.is_authenticated)
       /\ file.kind = "json" => t.val = <<file.obj.sealed_session.v>>
       /\ file.kind = "absent" => (a = Ok([is_authenticated |-> FALSE, user |-> <<>>]) /\ t = Ok(<<>>))

\* C12: in every state get_auth_state reports authenticated exactly when a
\* session is stored, with a user exactly then, carrying the stored id, email
\* and names; get_session_token returns the stored token exactly then; and
\* neither command changes the persisted session.
C12_ReadsAgreeWithStore ==
    /\ []ReadsAgree
    /\ [][(op' = "get_auth_state" => result' = get_auth_state(file))
          /\ (op' = "get_session_token" => result' = get_session_token(file))
          /\ (op' \in {"get_auth_state", "get_session_token"}
              => (file' = file /\ keychain' = keychain /\ emitted' = <<>>))]_vars

C12_Witness ==
    /\ op = "get_auth_state"
    /\ result = Ok([is_authenticated |-> TRUE,
                    user |-> << [id |-> <<"u", "1">>, email |-> <<"a", "@", "b">>,
                                 first_name |-> <<>>, last_name |-> <<(<<"L", " ", "M">>)>>] >>])
    /\ get_session_token(file) = Ok(<<(<<"t", "+", "1">>)>>)

\* C14: logout on an absent session returns Ok and leaves it absent; a logout
\* fails only when the file is there and cannot be removed, never because the
\* credential could not be deleted; a logout after a logout that returned Ok
\* returns Ok and changes nothing; and after a logout that returned Ok
\* get_auth_state reports not authenticated, no user, and get_session_token None.
C14_LogoutIdempotent ==
    [][op' = "logout"
       => /\ file.kind = "absent" => (result' = Ok(Unit) /\ file' = file)
          /\ ~ result'.ok => (PathExists(file) /\ file' = file)
          /\ (op = "logout" /\ result.ok) => (result' = Ok(Unit) /\ file' = file)
          /\ result'.ok
             => /\ file'.kind = "absent"
                /\ get_auth_state(file') = Ok([is_authenticated |-> FALSE, user |-> <<>>])
                /\ get_session_token(file') = Ok(<<>>)]_vars

C14_Witness ==
    /\ op = "logout" /\ result = Ok(Unit)
    /\ credDelete = "failed"
    /\ file.kind = "absent"
    /\ live = None

\* the session a callback URL stands for, read off its text
ExpectedSession(url) ==
    [sealed_session |-> ParamValue(url, "sealed_session"),
     user_id |-> ParamValue(url, "user_id"),
     email |-> ParamValue(url, "email"),
     first_name |-> OptParamValue(url, "first_name"),
     last_name |-> OptParamValue(url, "last_name")]

\* the URLs of a delivery that are valid callbacks and whose write succeeded
SavedOk(urls, handled) ==
    {i \in DOMAIN urls : /\ i \in DOMAIN handled
                         /\ IsCallbackUrl(urls[i]) /\ HasAllRequired(urls[i])
                         /\ handled[i].w = "ok"}

Last(S) == CHOOSE i \in S : \A j \in S : j <= i

\* C13: a delivery of several URLs handles each of them, in list order,
\* whatever the earlier ones returned, and leaves as stored session that of the
\* last URL that was a valid callback and was saved successfully, or the
\* state before the delivery when there is none.
C13_DeliveryInOrder ==
    [][op' \in {"startup_urls", "on_open_url"}
       => /\ Len(delivery') = Len(arg')
          /\ IF SavedOk(arg', delivery') = {}
             THEN file' = file
             ELSE get_session(file') =
                    Ok(Some(ExpectedSession(arg'[Last(SavedOk(arg', delivery'))])))]_vars

\* C15: two runs that differ only in the values of the sealed_session
\* parameter of their callbacks emit the same events with the same payloads
\* and get the same results from get_auth_state (and from the callback
\* handler and logout); only get_session_token tells them apart.
C15_TokenNotObservable ==
    /\ emitted = twin.emitted
    /\ op = "get_auth_state" => result = twin.result
    /\ op \in {"handle_deep_link", "logout"} => result = twin.result

\* the runs do differ, and get_session_token shows it
C15_Witness ==
    /\ op = "get_session_token"
    /\ result = Ok(<<(<<"t", "+", "1">>)>>)
    /\ twin.result = Ok(<<(<<"t", "2">>)>>)
    /\ get_auth_state(file) = get_auth_state(twin.file)
    /\ file # twin.file

====
